---- MODULE Spec2Model ----
(***************************************************************************)
(* Model of toy_dash_app.py: the sales dashboard's two Dash callbacks,     *)
(* update_figs (filter + aggregation) and update_region_selection (the     *)
(* Clear All / Select All buttons), and the callback wiring between them.  *)
(*                                                                         *)
(* Data frames are sequences of row records.  Region and product names are *)
(* strings; their lexicographic order (what sorted() and groupby use) is   *)
(* given by the position in RegionOrder / ProductOrder.  Dates are week    *)
(* numbers, ordered like the ISO date strings of the CSV.  A float mean is *)
(* the exact fraction [num, den]; den = 0 is NaN (mean of nothing).        *)
(***************************************************************************)
EXTENDS Integers, Sequences, FiniteSets, TLC

VARIABLES toys_df, unique_regions, region_menu, line_mode, clear_clicks,
          select_clicks, triggered_id, pending, outputs, cycle

vars == <<toys_df, unique_regions, region_menu, line_mode, clear_clicks,
          select_clicks, triggered_id, pending, outputs, cycle>>

\* ---------------------------------------------------------------- bounds
MaxRecords == 2
MaxClicks == 2

\* -------------------------------------------------------- value universes
RegionOrder == <<"East", "West">>
ProductOrder == <<"Car", "Doll">>
Dates == {1, 2}
UnitVals == {1, 2}
RevenueVals == {1, 2}
Modes == {"total", "region", "product"}
TriggerIds == {"clear-btn", "select-btn", "region-menu", "none"}

Range(s) == {s[i] : i \in DOMAIN s}

SeqsUpTo(S, n) == UNION {[1..k -> S] : k \in 0..n}

RegionRank(r) == CHOOSE i \in DOMAIN RegionOrder : RegionOrder[i] = r
ProductRank(p) == CHOOSE i \in DOMAIN ProductOrder : ProductOrder[i] = p

\* rows of the CSV: date, region, product, units, revenue
SalesRecords ==
    [date : Dates, region : Range(RegionOrder), product : Range(ProductOrder),
     units : UnitVals, revenue : RevenueVals]

\* the smaller row universe used when the whole application is explored
AppRecords == {r \in SalesRecords : r.date = 1 /\ r.units = 1 /\ r.revenue = 1}

\* lists of distinct region names: what a multi-select dropdown can hold
Selections ==
    {s \in SeqsUpTo(Range(RegionOrder), Len(RegionOrder)) :
        \A i, j \in DOMAIN s : i # j => s[i] # s[j]}

\* ------------------------------------------------------- pandas helpers
\* the elements of S in ascending order of the total order Leq
SortSet(S, Leq(_, _)) ==
    [i \in 1..Cardinality(S) |->
        CHOOSE x \in S : Cardinality({y \in S : Leq(y, x)}) = i]

RECURSIVE SumCol(_, _)
SumCol(df, col) ==
    IF df = <<>> THEN 0 ELSE df[1][col] + SumCol(Tail(df), col)

\* Series.mean(): NaN (den = 0) on an empty series
MeanCol(df, col) == [num |-> SumCol(df, col), den |-> Len(df)]

\* a >= b for fractions with den > 0
FracGeq(a, b) == a.num * b.den >= b.num * a.den

RegionLeq(a, b) == RegionRank(a) <= RegionRank(b)
ProductLeq(a, b) == ProductRank(a) <= ProductRank(b)

\* variant: the distinct regions in order of first appearance (unique() with
\* the sorted() left out)
UniqueInFileOrder(df) ==
    LET FirstAt(r) == CHOOSE i \in DOMAIN df :
                          df[i].region = r /\ \A j \in 1..(i - 1) : df[j].region # r
    IN  SortSet({r.region : r \in Range(df)},
                LAMBDA a, b : FirstAt(a) <= FirstAt(b))

\* sorted(toys_df["region"].unique())
SortedUnique(df) == SortSet({r.region : r \in Range(df)}, RegionLeq)

\* variant: an empty selection read as "no filter"
DffEmptyMeansAll(selected_regions) ==
    IF selected_regions = <<>>
    THEN toys_df
    ELSE SelectSeq(toys_df, LAMBDA r : r.region \in Range(selected_regions))

\* variant: the filter compares with one selected value instead of isin
DffFirstSelectedOnly(selected_regions) ==
    IF selected_regions = <<>>
    THEN SubSeq(toys_df, 1, 0)
    ELSE SelectSeq(toys_df, LAMBDA r : r.region = selected_regions[1])

\* ------------------------------------------------------------ update_figs
\* "guard": the rows whose region is one of selected_regions; no rows when
\* the selection is empty
Dff(selected_regions) ==
    IF selected_regions = <<>>
    THEN SubSeq(toys_df, 1, 0)
    ELSE SelectSeq(toys_df, LAMBDA r : r.region \in Range(selected_regions))

TotalRevenue(dff) == IF dff # <<>> THEN SumCol(dff, "revenue") ELSE 0

AvgUnits(dff) ==
    IF dff # <<>> THEN MeanCol(dff, "units") ELSE [num |-> 0, den |-> 1]

OrdersCount(dff) == Len(dff)

DateRegionProductLeq(a, b) ==
    \/ a[1] < b[1]
    \/ a[1] = b[1] /\ RegionRank(a[2]) < RegionRank(b[2])
    \/ a[1] = b[1] /\ a[2] = b[2] /\ ProductRank(a[3]) <= ProductRank(b[3])

\* variant: the first stage keeps the first revenue of a group instead of
\* the group's sum
RevByDateDfFirst(dff) ==
    IF dff = <<>>
    THEN <<>>
    ELSE LET keys == SortSet({<<r.date, r.region, r.product>> : r \in Range(dff)},
                             DateRegionProductLeq)
         IN  [i \in DOMAIN keys |->
                [date |-> keys[i][1], region |-> keys[i][2],
                 product |-> keys[i][3],
                 revenue |-> SelectSeq(dff, LAMBDA r :
                                 <<r.date, r.region, r.product>> = keys[i])[1].revenue]]

\* groupby(["date", "region", "product"]).sum(), then sort_values("date"):
\* one row per key, keys ascending (so dates ascending)
RevByDateDf(dff) ==
    IF dff = <<>>
    THEN <<>>
    ELSE LET keys == SortSet({<<r.date, r.region, r.product>> : r \in Range(dff)},
                             DateRegionProductLeq)
         IN  [i \in DOMAIN keys |->
                [date |-> keys[i][1], region |-> keys[i][2],
                 product |-> keys[i][3],
                 revenue |-> SumCol(SelectSeq(dff, LAMBDA r :
                                 <<r.date, r.region, r.product>> = keys[i]),
                               "revenue")]]

DateRegionLeq(a, b) ==
    a[1] < b[1] \/ (a[1] = b[1] /\ RegionRank(a[2]) <= RegionRank(b[2]))

DateProductLeq(a, b) ==
    a[1] < b[1] \/ (a[1] = b[1] /\ ProductRank(a[2]) <= ProductRank(b[2]))

DateLeq(a, b) == a <= b

\* the second groupby, chosen by line_mode
PlotDf(rev_by_date_df, mode) ==
    IF mode = "region"
    THEN LET keys == SortSet({<<r.date, r.region>> : r \in Range(rev_by_date_df)},
                             DateRegionLeq)
         IN  [i \in DOMAIN keys |->
                [date |-> keys[i][1], region |-> keys[i][2],
                 revenue |-> SumCol(SelectSeq(rev_by_date_df, LAMBDA r :
                                 <<r.date, r.region>> = keys[i]), "revenue")]]
    ELSE IF mode = "product"
    THEN LET keys == SortSet({<<r.date, r.product>> : r \in Range(rev_by_date_df)},
                             DateProductLeq)
         IN  [i \in DOMAIN keys |->
                [date |-> keys[i][1], product |-> keys[i][2],
                 revenue |-> SumCol(SelectSeq(rev_by_date_df, LAMBDA r :
                                 <<r.date, r.product>> = keys[i]), "revenue")]]
    ELSE LET keys == SortSet({r.date : r \in Range(rev_by_date_df)}, DateLeq)
         IN  [i \in DOMAIN keys |->
                [date |-> keys[i],
                 revenue |-> SumCol(SelectSeq(rev_by_date_df, LAMBDA r :
                                 r.date = keys[i]), "revenue")]]

\* groupby("product").mean(): one row per product, products ascending
MeanUnitsByProduct(dff) ==
    LET keys == SortSet({r.product : r \in Range(dff)}, ProductLeq)
    IN  [i \in DOMAIN keys |->
           [product |-> keys[i],
            units |-> MeanCol(SelectSeq(dff, LAMBDA r : r.product = keys[i]),
                              "units")]]

\* variant: ascending order
SortValuesAsc(df, col) ==
    {s \in [DOMAIN df -> Range(df)] :
        /\ \A i, j \in DOMAIN s : i # j => s[i] # s[j]
        /\ \A i, j \in DOMAIN s : i < j => FracGeq(s[j][col], s[i][col])}

\* sort_values(by, ascending=False) with the default, unstable sort: every
\* arrangement of the rows in non-increasing order of the column
SortValuesDesc(df, col) ==
    {s \in [DOMAIN df -> Range(df)] :
        /\ \A i, j \in DOMAIN s : i # j => s[i] # s[j]
        /\ \A i, j \in DOMAIN s : i < j => FracGeq(s[i][col], s[j][col])}

\* the bar chart's frame: the set of frames the sort can produce
UnitsByProductDf(dff) ==
    IF dff = <<>> THEN {<<>>}
    ELSE SortValuesDesc(MeanUnitsByProduct(dff), "units")

\* DataFrame.pivot: row labels, column labels, and the cells that have a row
\* in the grouped frame (the others are missing, NaN)
Pivot(df) ==
    [index |-> SortSet({r.region : r \in Range(df)}, RegionLeq),
     columns |-> SortSet({r.product : r \in Range(df)}, ProductLeq),
     cells |-> [k \in {<<r.region, r.product>> : r \in Range(df)} |->
                  (CHOOSE r \in Range(df) : <<r.region, r.product>> = k).revenue]]

\* variant: the missing cells stay missing
FillNaNothing(pv, v) == pv

\* DataFrame.fillna(v): every cell of the index x columns grid has a value
FillNa(pv, v) ==
    [index |-> pv.index, columns |-> pv.columns,
     cells |-> [k \in Range(pv.index) \X Range(pv.columns) |->
                  IF k \in DOMAIN pv.cells THEN pv.cells[k] ELSE v]]

RegionProductLeq(a, b) ==
    \/ RegionRank(a[1]) < RegionRank(b[1])
    \/ a[1] = b[1] /\ ProductRank(a[2]) <= ProductRank(b[2])

\* groupby(["region", "product"]).sum()
HeatmapDf(dff) ==
    LET keys == SortSet({<<r.region, r.product>> : r \in Range(dff)},
                        RegionProductLeq)
    IN  [i \in DOMAIN keys |->
           [region |-> keys[i][1], product |-> keys[i][2],
            revenue |-> SumCol(SelectSeq(dff, LAMBDA r :
                            <<r.region, r.product>> = keys[i]), "revenue")]]

\* variant: no special case for an empty frame
HeatmapPivotedDfNoGuard(dff) == FillNa(Pivot(HeatmapDf(dff)), 0)

HeatmapPivotedDf(dff) ==
    IF dff = <<>>
    THEN [index |-> <<"-">>, columns |-> <<"-">>, cells |-> (<<"-", "-">> :> 0)]
    ELSE FillNa(Pivot(HeatmapDf(dff)), 0)

\* the six outputs of one call, before display formatting; a set because the
\* order of equal means in the bar chart's frame is not determined
update_figs(selected_regions, mode) ==
    LET dff == Dff(selected_regions)
    IN  {[total_revenue |-> TotalRevenue(dff),
          avg_units |-> AvgUnits(dff),
          orders_count |-> OrdersCount(dff),
          plot_df |-> PlotDf(RevByDateDf(dff), mode),
          units_by_product_df |-> u,
          heatmap_pivoted_df |-> HeatmapPivotedDf(dff)] :
            u \in UnitsByProductDf(dff)}

\* variant: the clear button leaves the list as it is
SelectionClearIgnored(clear_clicks_arg, select_clicks_arg, current_value, triggered) ==
    IF triggered = "select-btn" THEN unique_regions ELSE current_value

\* variant: the button is guessed from the click counters
SelectionByClickCounts(clear_clicks_arg, select_clicks_arg, current_value, triggered) ==
    IF clear_clicks_arg > select_clicks_arg THEN <<>>
    ELSE IF select_clicks_arg > clear_clicks_arg THEN unique_regions
    ELSE current_value

\* -------------------------------------------------- update_region_selection
update_region_selection(clear_clicks_arg, select_clicks_arg, current_value, triggered) ==
    IF triggered = "clear-btn" THEN <<>>
    ELSE IF triggered = "select-btn" THEN unique_regions
    ELSE current_value

\* --------------------------------------------- direct calls of update_figs
\* cycle is the record of the current event cycle: the control that started
\* it, the region list right after the event itself, and how often each
\* callback has run since
NoHistory == [event |-> "none", regions_at_event |-> <<>>, ctl_runs |-> 0, figs_runs |-> 0]

InitFigs ==
    /\ toys_df \in SeqsUpTo(SalesRecords, MaxRecords)
    /\ unique_regions = SortedUnique(toys_df)
    /\ region_menu \in Selections
    /\ line_mode \in Modes
    /\ clear_clicks = 0
    /\ select_clicks = 0
    /\ triggered_id = "none"
    /\ pending = <<>>
    /\ outputs = <<>>
    /\ cycle = NoHistory

CallUpdateFigs ==
    /\ outputs = <<>>
    /\ \E res \in update_figs(region_menu, line_mode) : outputs' = <<res>>
    /\ UNCHANGED <<toys_df, unique_regions, region_menu, line_mode, clear_clicks,
                   select_clicks, triggered_id, pending, cycle>>

NextFigs == CallUpdateFigs

SpecFigs == InitFigs /\ [][NextFigs]_vars

\* --------------------------------------------------------- callback wiring
CallbackOrder == <<"update_figs", "update_region_selection">>

\* variant: update_figs listens to the region dropdown only
FigsInputsRegionOnly == {"region-menu"}

\* Input(...) declarations of update_figs
FigsInputs == {"region-menu", "line-mode"}

\* Input(...) declarations of update_region_selection
SelectionInputs == {"clear-btn", "select-btn"}

InputsOf(cb) == IF cb = "update_figs" THEN FigsInputs ELSE SelectionInputs

\* callbacks declared with prevent_initial_call=True
PreventInitialCall == {"update_region_selection"}

\* the callbacks a changed property requests, each told which control fired
Dispatch(prop) ==
    LET cbs == SelectSeq(CallbackOrder, LAMBDA cb : prop \in InputsOf(cb))
    IN  [i \in DOMAIN cbs |-> [cb |-> cbs[i], triggered |-> prop]]

\* the callbacks requested when the page loads
InitialCalls ==
    LET cbs == SelectSeq(CallbackOrder, LAMBDA cb : cb \notin PreventInitialCall)
    IN  [i \in DOMAIN cbs |-> [cb |-> cbs[i], triggered |-> "none"]]

StartCycle(event, regions) ==
    [event |-> event, regions_at_event |-> regions, ctl_runs |-> 0, figs_runs |-> 0]

\* ---------------------------------------------------------- the application
Init ==
    /\ toys_df \in SeqsUpTo(AppRecords, MaxRecords)
    /\ unique_regions = SortedUnique(toys_df)
    /\ region_menu = unique_regions
    /\ line_mode = "total"
    /\ clear_clicks = 0
    /\ select_clicks = 0
    /\ triggered_id = "none"
    /\ pending = InitialCalls
    /\ outputs = <<>>
    /\ cycle = StartCycle("startup", unique_regions)

\* the user picks or removes one option of the region dropdown
ToggleRegion ==
    /\ pending = <<>>
    /\ \E r \in Range(unique_regions) :
         region_menu' = IF r \in Range(region_menu)
                        THEN SelectSeq(region_menu, LAMBDA x : x # r)
                        ELSE Append(region_menu, r)
    /\ pending' = Dispatch("region-menu")
    /\ cycle' = StartCycle("region-menu", region_menu')
    /\ UNCHANGED <<toys_df, unique_regions, line_mode, clear_clicks,
                   select_clicks, triggered_id, outputs>>

\* the user empties the dropdown with its own clear cross (clearable=True)
ClearDropdown ==
    /\ pending = <<>>
    /\ region_menu # <<>>
    /\ region_menu' = <<>>
    /\ pending' = Dispatch("region-menu")
    /\ cycle' = StartCycle("region-menu", region_menu')
    /\ UNCHANGED <<toys_df, unique_regions, line_mode, clear_clicks,
                   select_clicks, triggered_id, outputs>>

\* the user picks another radio item
ChangeMode ==
    /\ pending = <<>>
    /\ \E m \in Modes \ {line_mode} : line_mode' = m
    /\ pending' = Dispatch("line-mode")
    /\ cycle' = StartCycle("line-mode", region_menu)
    /\ UNCHANGED <<toys_df, unique_regions, region_menu, clear_clicks,
                   select_clicks, triggered_id, outputs>>

ClickClear ==
    /\ pending = <<>>
    /\ clear_clicks < MaxClicks
    /\ clear_clicks' = clear_clicks + 1
    /\ pending' = Dispatch("clear-btn")
    /\ cycle' = StartCycle("clear-btn", region_menu)
    /\ UNCHANGED <<toys_df, unique_regions, region_menu, line_mode,
                   select_clicks, triggered_id, outputs>>

ClickSelect ==
    /\ pending = <<>>
    /\ select_clicks < MaxClicks
    /\ select_clicks' = select_clicks + 1
    /\ pending' = Dispatch("select-btn")
    /\ cycle' = StartCycle("select-btn", region_menu)
    /\ UNCHANGED <<toys_df, unique_regions, region_menu, line_mode,
                   clear_clicks, triggered_id, outputs>>

\* one run of update_region_selection; its output is region-menu's value
RunUpdateRegionSelection ==
    /\ pending # <<>>
    /\ Head(pending).cb = "update_region_selection"
    /\ triggered_id' = Head(pending).triggered
    /\ region_menu' = update_region_selection(clear_clicks, select_clicks,
                                              region_menu, Head(pending).triggered)
    /\ pending' = Tail(pending) \o Dispatch("region-menu")
    /\ cycle' = [cycle EXCEPT !.ctl_runs = @ + 1]
    /\ UNCHANGED <<toys_df, unique_regions, line_mode, clear_clicks,
                   select_clicks, outputs>>

\* one run of update_figs
RunUpdateFigs ==
    /\ pending # <<>>
    /\ Head(pending).cb = "update_figs"
    /\ \E res \in update_figs(region_menu, line_mode) : outputs' = <<res>>
    /\ pending' = Tail(pending)
    /\ cycle' = [cycle EXCEPT !.figs_runs = @ + 1]
    /\ UNCHANGED <<toys_df, unique_regions, region_menu, line_mode,
                   clear_clicks, select_clicks, triggered_id>>

Next ==
    \/ ToggleRegion
    \/ ClearDropdown
    \/ ChangeMode
    \/ ClickClear
    \/ ClickSelect
    \/ RunUpdateRegionSelection
    \/ RunUpdateFigs

Spec == Init /\ [][Next]_vars

\* ---------------------------------- direct calls of update_region_selection
InitSel ==
    /\ toys_df \in SeqsUpTo(AppRecords, MaxRecords)
    /\ unique_regions = SortedUnique(toys_df)
    /\ region_menu \in Selections
    /\ line_mode = "total"
    /\ clear_clicks = 0
    /\ select_clicks = 0
    /\ triggered_id = "none"
    /\ pending = <<>>
    /\ outputs = <<>>
    /\ cycle = NoHistory

\* a call with any click counts and any (or no) triggering control
CallUpdateRegionSelection ==
    /\ \E t \in TriggerIds, c \in 0..MaxClicks, n \in 0..MaxClicks :
         /\ clear_clicks' = c
         /\ select_clicks' = n
         /\ triggered_id' = t
         /\ region_menu' = update_region_selection(c, n, region_menu, t)
         /\ cycle' = [StartCycle(t, region_menu) EXCEPT !.ctl_runs = 1]
    /\ UNCHANGED <<toys_df, unique_regions, line_mode, pending, outputs>>

NextSel == CallUpdateRegionSelection

SpecSel == InitSel /\ [][NextSel]_vars

\* ================================================================ properties
\* what the properties measure on the base data directly
Out == outputs[1]
Called == outputs # <<>>
Idle == pending = <<>>

\* positions of the base rows whose region is selected
Matching == {i \in DOMAIN toys_df : toys_df[i].region \in Range(region_menu)}

RECURSIVE SumAt(_, _)
SumAt(I, col) ==
    IF I = {} THEN 0
    ELSE LET i == CHOOSE x \in I : TRUE
         IN  toys_df[i][col] + SumAt(I \ {i}, col)

MatchingProducts == {toys_df[i].product : i \in Matching}
MatchingRegions == {toys_df[i].region : i \in Matching}
AllProducts == {r.product : r \in Range(toys_df)}

IsSortedDedup(u) ==
    \A i, j \in DOMAIN u : i < j => RegionRank(u[i]) < RegionRank(u[j])

DegenerateOutputs(o) ==
    /\ o.total_revenue = 0
    /\ o.avg_units.num = 0 /\ o.avg_units.den # 0
    /\ o.orders_count = 0
    /\ o.plot_df = <<>>
    /\ o.units_by_product_df = <<>>

\* C1: once update_region_selection has handled a select-all trigger, the
\* region list is exactly the distinct regions of the base data, in ascending
\* order without repeats, as derived at load time
C1_SelectAllYieldsAllRegions ==
    (cycle.event = "select-btn" /\ cycle.ctl_runs >= 1) =>
        /\ region_menu = unique_regions
        /\ Range(region_menu) = {r.region : r \in Range(toys_df)}
        /\ IsSortedDedup(region_menu)

C1_Witness ==
    /\ cycle.event = "select-btn" /\ cycle.ctl_runs = 1
    /\ cycle.regions_at_event = <<>>
    /\ clear_clicks > 0
    /\ Len(region_menu) = 2
    /\ toys_df[1].region = "West"

\* C2: once update_region_selection has handled a clear-all trigger, the
\* region list is empty, and the update_figs run that follows emits revenue 0,
\* mean units 0, row count 0, an empty time series and an empty product
\* summary, whatever the grouping mode
C2_ClearAllYieldsEmpty ==
    (cycle.event = "clear-btn" /\ cycle.ctl_runs >= 1) =>
        /\ region_menu = <<>>
        /\ cycle.figs_runs >= 1 => (Called /\ DegenerateOutputs(Out))

C2_Witness ==
    /\ cycle.event = "clear-btn" /\ cycle.ctl_runs = 1 /\ cycle.figs_runs = 1
    /\ cycle.regions_at_event # <<>>
    /\ Len(toys_df) = MaxRecords
    /\ line_mode = "product"

\* C3: update_figs called with an empty region selection yields total revenue
\* 0, mean units 0 (a number, not NaN), row count 0, an empty time series and
\* an empty product summary, for every dataset and grouping mode
C3_EmptySelectionDegenerate ==
    (Called /\ region_menu = <<>>) => DegenerateOutputs(Out)

C3_Witness ==
    /\ Called /\ region_menu = <<>>
    /\ Len(toys_df) = MaxRecords
    /\ line_mode = "region"

\* C4: for a non-empty selection, the revenue summed over the rows of the
\* time series equals the KPI total revenue, in every grouping mode
C4_SeriesRevenueEqualsKpi ==
    (Called /\ region_menu # <<>>) =>
        /\ SumCol(Out.plot_df, "revenue") = Out.total_revenue
        /\ Out.total_revenue = SumAt(Matching, "revenue")

C4_Witness ==
    /\ Called /\ region_menu # <<>>
    /\ line_mode = "product"
    /\ Len(Out.plot_df) = 1
    /\ Out.orders_count = 2
    /\ toys_df[1].region # toys_df[2].region
    /\ toys_df[1].revenue # toys_df[2].revenue

\* C5: for a non-empty selection, the KPI row count is the number of base
\* rows whose region is a member of the selection
C5_RowCountIsMatchingRows ==
    (Called /\ region_menu # <<>>) => Out.orders_count = Cardinality(Matching)

C5_Witness ==
    /\ Called
    /\ \E r \in Range(region_menu) : \A i \in DOMAIN toys_df : toys_df[i].region # r
    /\ toys_df # <<>>
    /\ Len(region_menu) = 2
    /\ Out.orders_count = Len(toys_df)

\* C6 as stated: for a non-empty selection the matrix has a cell for every
\* selected region and every product of the whole dataset, holding the summed
\* revenue of the matching selected rows (zero when there are none); stated
\* here only for selections made of regions the dataset has
C6_DenseOverFullProductSet ==
    (Called /\ region_menu # <<>> /\ Range(region_menu) \subseteq Range(unique_regions)) =>
        \A r \in Range(region_menu), p \in AllProducts :
            /\ <<r, p>> \in DOMAIN Out.heatmap_pivoted_df.cells
            /\ Out.heatmap_pivoted_df.cells[<<r, p>>] =
                 SumAt({i \in Matching : toys_df[i].region = r
                                          /\ toys_df[i].product = p}, "revenue")

\* C6 amended: when the selection matches at least one row, the matrix has one
\* row per region and one column per product occurring in the matching rows,
\* and a cell for every such (region, product) pair, holding the summed
\* revenue of the matching rows of that pair (zero when there are none)
C6_DenseOverFilteredData ==
    (Called /\ Matching # {}) =>
        LET hm == Out.heatmap_pivoted_df
        IN  /\ Range(hm.index) = MatchingRegions
            /\ Range(hm.columns) = MatchingProducts
            /\ DOMAIN hm.cells = MatchingRegions \X MatchingProducts
            /\ \A r \in MatchingRegions, p \in MatchingProducts :
                 hm.cells[<<r, p>>] =
                   SumAt({i \in Matching : toys_df[i].region = r
                                            /\ toys_df[i].product = p}, "revenue")

C6_Witness ==
    /\ Called /\ Matching # {}
    /\ Cardinality(DOMAIN Out.heatmap_pivoted_df.cells) = 4
    /\ Out.heatmap_pivoted_df.cells[<<"East", "Doll">>] = 0
    /\ Out.heatmap_pivoted_df.cells[<<"West", "Doll">>] = 2

\* C7: the product summary has exactly one row per product occurring in the
\* matching rows, each holding the mean of that product's units, and the rows
\* are in non-increasing order of the mean
C7_ProductSummary ==
    Called =>
        LET ps == Out.units_by_product_df
        IN  /\ {ps[k].product : k \in DOMAIN ps} = MatchingProducts
            /\ \A j, k \in DOMAIN ps : j # k => ps[j].product # ps[k].product
            /\ \A k \in DOMAIN ps :
                 LET rows == {i \in Matching : toys_df[i].product = ps[k].product}
                 IN  /\ ps[k].units.den = Cardinality(rows)
                     /\ ps[k].units.num = SumAt(rows, "units")
            /\ \A j, k \in DOMAIN ps :
                 j < k => ps[j].units.num * ps[k].units.den
                            >= ps[k].units.num * ps[j].units.den

C7_Witness ==
    /\ Called
    /\ Len(Out.units_by_product_df) = 2
    /\ Out.units_by_product_df[1].product = "Doll"
    /\ Out.units_by_product_df[1].units.num = 2
    /\ Out.units_by_product_df[2].units.num = 1

\* C8: a call of update_region_selection returns the empty list when the
\* clear button fired, the full region list when the select button fired, and
\* the current list otherwise, whatever the click counts and the list were
C8_LastFiredControlDecides ==
    cycle.ctl_runs >= 1 =>
        region_menu = IF triggered_id = "clear-btn" THEN <<>>
                      ELSE IF triggered_id = "select-btn" THEN unique_regions
                      ELSE cycle.regions_at_event

C8_Witness ==
    /\ cycle.ctl_runs = 1
    /\ triggered_id = "none"
    /\ clear_clicks > select_clicks
    /\ Len(region_menu) = 1
    /\ Len(unique_regions) = 2

\* C9: whenever no base row matches the selection, the matrix is the single
\* placeholder cell "-" x "-" valued zero, and the time series and the
\* product summary are empty, in every grouping mode
C9_EmptySubsetPlaceholder ==
    (Called /\ Matching = {}) =>
        /\ Out.heatmap_pivoted_df.index = <<"-">>
        /\ Out.heatmap_pivoted_df.columns = <<"-">>
        /\ DOMAIN Out.heatmap_pivoted_df.cells = {<<"-", "-">>}
        /\ Out.heatmap_pivoted_df.cells[<<"-", "-">>] = 0
        /\ Out.plot_df = <<>>
        /\ Out.units_by_product_df = <<>>

C9_Witness ==
    /\ Called /\ Matching = {}
    /\ region_menu # <<>>
    /\ toys_df # <<>>
    /\ line_mode = "product"

\* C10: when an event cycle is complete, the emitted outputs are those of
\* update_figs for the current region list and mode, update_figs has run
\* exactly once in the cycle, update_region_selection has run once if a
\* button started the cycle and not at all otherwise (start-up included), and
\* a cycle started by a mode change or at start-up left the region list alone
C10_NoStaleOutput ==
    Idle =>
        /\ Called
        /\ Out \in update_figs(region_menu, line_mode)
        /\ Out.orders_count = Cardinality(Matching)
        /\ cycle.figs_runs = 1
        /\ cycle.ctl_runs = IF cycle.event \in {"clear-btn", "select-btn"} THEN 1 ELSE 0
        /\ cycle.event \in {"line-mode", "startup"} => region_menu = cycle.regions_at_event

C10_Witness ==
    /\ Idle
    /\ cycle.event = "line-mode"
    /\ line_mode = "region"
    /\ clear_clicks = 1 /\ select_clicks = 1
    /\ Len(region_menu) = 1
    /\ Len(Out.plot_df) = 1

====
